---- MODULE Spec2Model ----
(***************************************************************************)
(* State-machine model of the solana-trade venue clients (Meteora DLMM,    *)
(* DAMM v1, DAMM v2, DBC), the transaction builder and the trade facade.   *)
(*                                                                         *)
(* Times are milliseconds, as Date.now() returns them.  The clock moves in *)
(* steps of TickMs.  A listing is the set of pool ids the venue API        *)
(* returned, tagged with the time `ver` at which the fetch completed.      *)
(***************************************************************************)
EXTENDS Integers, Sequences, FiniteSets, TLC

VARIABLES
  venue,     \* the venue client exercised in this behaviour
  env,       \* process.env: variable name -> value
  now,       \* Date.now()
  mem,       \* the client's static in-memory listing cache: key -> entry
  disk,      \* the .cache directory: key -> file
  call,      \* the listing call in flight (suspended on its network fetch)
  last,      \* what the most recent listing call did
  netEntry,  \* key -> the entry stored by this process's last network fetch
  keyIn,     \* arguments (a, b) of a pair-key computation
  keyOut,    \* its results: <<key(a, b), key(b, a)>>
  snapshot,  \* the listing items a resolver works on
  pairCache, \* MeteoraDlmmClient.pairCache: pair key -> pool address
  baseMintToPool, \* MeteoraDbcClient.baseMintToPool entry of the base mint
  found,     \* outcome of the most recent pool resolution
  snapPick,  \* pool the snapshot path first returned for this snapshot
  req,       \* parameters and environment of a buildTransaction call
  tx,        \* instructions of the Transaction being built, in order
  build,     \* position and outcome of the buildTransaction call
  cfg,       \* the constant tables of helpers/constants the facade reads
  treq,      \* parameters of a SolanaTrade.buy / sell call
  trade,     \* position and outcome of the SolanaTrade.trade call
  conv,      \* inputs and results of a venue adapter's unit conversions
  ttlUsed,   \* the TTL a client's getCacheTtlMs returned
  racers     \* the concurrent listing calls of one pair key

cacheVars == <<env, now, mem, disk, call, last, netEntry>>
keyVars == <<keyIn, keyOut>>
findVars == <<snapshot, pairCache, baseMintToPool, found, snapPick>>
buildVars == <<req, tx, build>>
tradeVars == <<cfg, treq, trade>>
convVars == <<conv>>
ttlVars == <<ttlUsed>>
raceVars == <<racers>>
vars ==
  <<venue, cacheVars, keyVars, findVars, buildVars, tradeVars, convVars, ttlVars,
    raceVars>>
\* what the actions of each specification leave alone
exceptCache ==
  <<keyVars, findVars, buildVars, tradeVars, convVars, ttlVars, raceVars>>
exceptKey ==
  <<cacheVars, findVars, buildVars, tradeVars, convVars, ttlVars, raceVars>>
exceptFind ==
  <<cacheVars, keyVars, buildVars, tradeVars, convVars, ttlVars, raceVars>>
exceptBuild ==
  <<cacheVars, keyVars, findVars, tradeVars, convVars, ttlVars, raceVars>>
exceptTrade ==
  <<cacheVars, keyVars, findVars, convVars, ttlVars, raceVars>>
exceptConv ==
  <<cacheVars, keyVars, findVars, buildVars, tradeVars, ttlVars, raceVars>>
exceptTtl ==
  <<now, mem, disk, call, last, netEntry, keyVars, findVars, buildVars, tradeVars,
    convVars, raceVars>>
exceptRace ==
  <<call, last, netEntry, keyVars, findVars, buildVars, tradeVars, convVars, ttlVars>>

-----------------------------------------------------------------------------
(* Bounds of the model *)

\* clock steps per default TTL
TicksPerTtl == 2
\* clock steps a behaviour may take
MaxTicks == 5
\* longest mint string (in characters) of the pair-key inputs
MaxMintLen == 2
\* most records in a listing snapshot
MaxPools == 2
\* most instructions a venue client returns
MaxMarketIx == 2

-----------------------------------------------------------------------------
(* Venues, mints and strings *)

DLMM == "METEORA_DLMM"
DAMM_V1 == "METEORA_DAMM_V1"
DAMM_V2 == "METEORA_DAMM_V2"
ListingVenues == {DLMM, DAMM_V1, DAMM_V2}

\* A string is a sequence of character codes.  Base58 characters are the
\* codes 1..3; '-' and ':' are not base58 characters.
Base58 == 1..3
DashChar == 0
ColonChar == 4

\* mints.WSOL, and two token mints: one sorts before WSOL, one after it
WSOL == <<2>>
Tokens == {<<1>>, <<3>>}
\* the token whose listing the modelled calls ask for
CallTokens == {<<1>>}

\* every mint string of at most MaxMintLen characters
MintStrings == UNION {[1..n -> Base58] : n \in 1..MaxMintLen}

\* JavaScript's default comparison of two strings (by code unit, a proper
\* prefix first): TRUE iff s sorts at or before t.
RECURSIVE StrLeq(_, _)
StrLeq(s, t) ==
  IF s = <<>> THEN TRUE
  ELSE IF t = <<>> THEN FALSE
  ELSE IF Head(s) < Head(t) THEN TRUE
  ELSE IF Head(s) > Head(t) THEN FALSE
  ELSE StrLeq(Tail(s), Tail(t))

\* [a, b].sort()
SortPair(a, b) == IF StrLeq(a, b) THEN <<a, b>> ELSE <<b, a>>

\* mutant of getPairCacheKey: the sort is dropped
getPairCacheKeyUnsorted(a, b) == a \o <<DashChar>> \o b

\* MeteoraDammV1Client.getPairCacheKey and MeteoraDammV2Client.getPairCacheKey
getPairCacheKey(a, b) ==
  LET xy == SortPair(a, b) IN xy[1] \o <<DashChar>> \o xy[2]

\* MeteoraDlmmClient.normalizeKey
normalizeKey(a, b) == a \o <<ColonChar>> \o b

\* the pair-key function of each venue client
PairKey(v, a, b) == IF v = DLMM THEN normalizeKey(a, b) ELSE getPairCacheKey(a, b)

-----------------------------------------------------------------------------
(* Cache TTL *)

CACHE_TTL_MS_DEFAULT == 5 * 60 * 1000
TickMs == CACHE_TTL_MS_DEFAULT \div TicksPerTtl
StartNow == 4 * CACHE_TTL_MS_DEFAULT

\* process.env values: an unset variable, a non-numeric string, or the text
\* of an integer
Unset == [kind |-> "unset", num |-> 0]
NotNumeric == [kind |-> "text", num |-> 0]
NumText(n) == [kind |-> "num", num |-> n]

\* Number(x): NaN for undefined and for non-numeric text
NaN == [nan |-> TRUE, inf |-> 0, num |-> 0]
Num(n) == [nan |-> FALSE, inf |-> 0, num |-> n]
\* Infinity and -Infinity
PosInfinity == [nan |-> FALSE, inf |-> 1, num |-> 0]
NegInfinity == [nan |-> FALSE, inf |-> -1, num |-> 0]
\* a < b on JavaScript numbers: false whenever an operand is NaN
JsLess(a, b) ==
  /\ ~a.nan
  /\ ~b.nan
  /\ IF a.inf # 0 \/ b.inf # 0 THEN a.inf < b.inf ELSE a.num < b.num
ToNumber(x) == IF x.kind = "num" THEN Num(x.num) ELSE NaN

\* the environment variable each client reads
TtlEnvName(v) ==
  IF v = DLMM THEN "PAIRS_CACHE_TTL_MSCACHE_TTL_MS" ELSE "PAIRS_CACHE_TTL_MS"
EnvNames == {"PAIRS_CACHE_TTL_MS", "PAIRS_CACHE_TTL_MSCACHE_TTL_MS"}

\* getCacheTtlMs of each client
getCacheTtlMs(v) ==
  LET fromEnv == ToNumber(env[TtlEnvName(v)])
  IN IF ~fromEnv.nan /\ fromEnv.num > 0 THEN fromEnv.num ELSE CACHE_TTL_MS_DEFAULT

-----------------------------------------------------------------------------
(* The listing cache: MeteoraDlmmClient.ensureRawPairs,                     *)
(* MeteoraDammV1Client.fetchPoolsForTokenPair and                           *)
(* MeteoraDammV2Client.fetchPoolsForTokenPair                               *)

\* pool ids a venue API may list
PoolIds == {"p1"}

\* DLMM keeps one listing (rawPairs, dlmm_pairs.json); DAMM v1 and v2 keep one
\* per pair key
RawKey == <<>>
CacheKey(v, token) == IF v = DLMM THEN RawKey ELSE getPairCacheKey(token, WSOL)

NoData == [ver |-> 0, pools |-> {}]
NoMem == [x \in {} |-> [data |-> NoData, loadedAt |-> 0]]
NoDisk == [x \in {} |-> [isArray |-> FALSE, data |-> NoData, mtime |-> 0]]
NoNet == [x \in {} |-> [data |-> NoData, loadedAt |-> 0]]

\* the static fields after class initialisation: rawPairs = [], rawLoadedAt = 0
\* (DLMM); an empty pairCache Map (DAMM v1, v2)
MemInit(v) ==
  IF v = DLMM THEN [x \in {RawKey} |-> [data |-> NoData, loadedAt |-> 0]] ELSE NoMem

Put(f, k, e) == [x \in DOMAIN f \cup {k} |-> IF x = k THEN e ELSE f[x]]

\* mutant of MemHit: the age comparison is reversed
MemHitReversed(v, k, t) ==
  /\ k \in DOMAIN mem
  /\ t - mem[k].loadedAt > getCacheTtlMs(v)
  /\ v = DLMM => mem[k].data.pools # {}

\* mutant of MemHit: the age test is dropped
MemHitNoTtl(v, k, t) ==
  /\ k \in DOMAIN mem
  /\ v = DLMM => mem[k].data.pools # {}

\* the memory-tier test of each client
MemHit(v, k, t) ==
  /\ k \in DOMAIN mem
  /\ t - mem[k].loadedAt < getCacheTtlMs(v)
  /\ v = DLMM => mem[k].data.pools # {}

\* stat && now - stat.mtimeMs < ttl
DiskFresh(v, k, t) ==
  /\ k \in DOMAIN disk
  /\ t - disk[k].mtime < getCacheTtlMs(v)

\* the disk-tier test: the file is fresh, readFileSync and JSON.parse succeed
\* and the payload is an array
DiskHit(v, k, t, readOk) ==
  /\ DiskFresh(v, k, t)
  /\ readOk
  /\ disk[k].isArray

\* the entry a disk hit puts in memory
PromotedEntry(file, t) == [data |-> file.data, loadedAt |-> t]

\* the entry a successful fetch puts in memory
FetchedEntry(items, t) == [data |-> items, loadedAt |-> t]

\* listing requests of one fetch: one GET (DLMM, DAMM v1); Promise.all of two
\* queryPools calls, one per mint order (DAMM v2)
NumRequests(v) == IF v = DAMM_V2 THEN 2 ELSE 1

\* the best-effort disk write: done, failed before writing, or failed after
\* truncating the file
WriteOutcomes == {"ok", "fail", "torn"}
WriteFile(k, items, w, t) ==
  IF w = "fail" THEN disk
  ELSE Put(disk, k, [isArray |-> (w = "ok"), data |-> items, mtime |-> t])

Idle == [active |-> FALSE, key |-> RawKey, now0 |-> 0, need |-> 0, got |-> NoData]

NoCall ==
  [status |-> "none", source |-> "none", requests |-> 0, pools |-> {},
   stale |-> FALSE, hadEntry |-> FALSE, expired |-> FALSE, prevFresh |-> FALSE,
   prevEmpty |-> FALSE, failed |-> FALSE, staleHeld |-> FALSE, answered |-> 0]

\* some tier holds an entry for k (for DLMM memory: something was loaded)
HasEntry(v, k) ==
  \/ k \in DOMAIN disk
  \/ k \in DOMAIN mem /\ (v = DLMM => mem[k].loadedAt # 0)

\* every entry held for k has a timestamp at least ttl old
AllExpired(v, k, t) ==
  /\ k \in DOMAIN mem => t - mem[k].loadedAt >= getCacheTtlMs(v)
  /\ k \in DOMAIN disk => t - disk[k].mtime >= getCacheTtlMs(v)

\* this process fetched k from the network and the entry it stored then is
\* younger than ttl
PrevFresh(v, k, t) ==
  /\ k \in DOMAIN netEntry
  /\ t - netEntry[k].loadedAt < getCacheTtlMs(v)
PrevEmpty(k) == k \in DOMAIN netEntry /\ netEntry[k].data.pools = {}

\* what a listing call found when it started
Started(v, k, t, src, n) ==
  [status |-> "pending", source |-> src, requests |-> n, pools |-> {},
   stale |-> FALSE, hadEntry |-> HasEntry(v, k), expired |-> AllExpired(v, k, t),
   prevFresh |-> PrevFresh(v, k, t), prevEmpty |-> PrevEmpty(k),
   failed |-> FALSE, staleHeld |-> FALSE, answered |-> 0]

\* the listing `data` is returned at time t
Returned(v, rec, data, t) ==
  [rec EXCEPT !.status = "ok", !.pools = data.pools,
              !.stale = (t - data.ver >= getCacheTtlMs(v))]

\* what a failed fetch gives the caller: mutant of FetchError, serving the
\* entry still held in memory
FetchErrorServeStale(v, rec, k, t) ==
  IF k \in DOMAIN mem /\ mem[k].data.pools # {}
  THEN Returned(v, rec, mem[k].data, t)
  ELSE [rec EXCEPT !.status = "error"]

\* `throw new Error(... API status ...)`, or the rejection of fetch / res.json
FetchError(v, rec, k, t) == [rec EXCEPT !.status = "error"]

\* Served from the memory tier.
ServeFromMemory(token) ==
  LET k == CacheKey(venue, token) IN
  /\ ~call.active
  /\ MemHit(venue, k, now)
  /\ last' = Returned(venue, Started(venue, k, now, "memory", 0), mem[k].data, now)
  /\ UNCHANGED <<venue, env, now, mem, disk, call, netEntry>>

\* Served from the disk tier, and promoted to the memory tier.
ServeFromDisk(token) ==
  LET k == CacheKey(venue, token) IN
  /\ ~call.active
  /\ ~MemHit(venue, k, now)
  /\ DiskHit(venue, k, now, TRUE)
  /\ mem' = Put(mem, k, PromotedEntry(disk[k], now))
  /\ last' = Returned(venue, Started(venue, k, now, "disk", 0), disk[k].data, now)
  /\ UNCHANGED <<venue, env, now, disk, call, netEntry>>

\* Both tiers miss (the disk tier also when reading the file fails): the
\* listing requests are sent and the call waits for the responses.
StartFetch(token) ==
  LET k == CacheKey(venue, token) IN
  /\ ~call.active
  /\ ~MemHit(venue, k, now)
  /\ \E readOk \in BOOLEAN : ~DiskHit(venue, k, now, readOk)
  /\ call' = [active |-> TRUE, key |-> k, now0 |-> now,
              need |-> NumRequests(venue), got |-> NoData]
  /\ last' = Started(venue, k, now, "network", NumRequests(venue))
  /\ UNCHANGED <<venue, env, now, mem, disk, netEntry>>

\* the listing so far, merged with one more response (DAMM v2 deduplicates
\* by pool address); the listing is obtained when its last response arrives
Merge(got, pools, t) == [ver |-> t, pools |-> got.pools \cup pools]

\* mutant of RespondOk: a failed disk write is not caught
RespondOkWriteThrows(pools, w) ==
  /\ call.active
  /\ LET items == Merge(call.got, pools, now)
         k == call.key
     IN IF call.need > 1
        THEN /\ call' = [call EXCEPT !.need = @ - 1, !.got = items]
             /\ last' = [last EXCEPT !.answered = @ + 1]
             /\ UNCHANGED <<mem, disk, netEntry>>
        ELSE /\ mem' = Put(mem, k, FetchedEntry(items, call.now0))
             /\ disk' = WriteFile(k, items, w, now)
             /\ netEntry' = Put(netEntry, k, FetchedEntry(items, call.now0))
             /\ call' = Idle
             /\ last' = IF w = "ok" THEN Returned(venue, last, items, now)
                        ELSE [last EXCEPT !.status = "error"]
  /\ UNCHANGED <<venue, env, now>>

\* One response arrives; with the last one, the listing is stored in memory,
\* written to disk (best effort) and returned.
RespondOk(pools, w) ==
  /\ call.active
  /\ LET items == Merge(call.got, pools, now)
         k == call.key
     IN IF call.need > 1
        THEN /\ call' = [call EXCEPT !.need = @ - 1, !.got = items]
             /\ last' = [last EXCEPT !.answered = @ + 1]
             /\ UNCHANGED <<mem, disk, netEntry>>
        ELSE /\ mem' = Put(mem, k, FetchedEntry(items, call.now0))
             /\ disk' = WriteFile(k, items, w, now)
             /\ netEntry' = Put(netEntry, k, FetchedEntry(items, call.now0))
             /\ call' = Idle
             /\ last' = Returned(venue, last, items, now)
  /\ UNCHANGED <<venue, env, now>>

\* mutant of RespondFail: the failed call leaves an empty entry in memory
RespondFailStoresEmpty ==
  /\ call.active
  /\ LET k == call.key
         held == (k \in DOMAIN mem /\ mem[k].data.pools # {}) \/ k \in DOMAIN disk
     IN last' = FetchError(venue, [last EXCEPT !.failed = TRUE, !.staleHeld = held],
                           k, now)
  /\ mem' = Put(mem, call.key, FetchedEntry(NoData, call.now0))
  /\ call' = Idle
  /\ UNCHANGED <<venue, env, now, disk, netEntry>>

\* A request fails (the fetch rejects, the status is not OK, or the body is
\* not JSON): the call throws.
RespondFail ==
  /\ call.active
  /\ LET k == call.key
         held == (k \in DOMAIN mem /\ mem[k].data.pools # {}) \/ k \in DOMAIN disk
     IN last' = FetchError(venue, [last EXCEPT !.failed = TRUE, !.staleHeld = held],
                           k, now)
  /\ call' = Idle
  /\ UNCHANGED <<venue, env, now, mem, disk, netEntry>>

\* Date.now() advances.
Tick ==
  /\ now < StartNow + MaxTicks * TickMs
  /\ now' = now + TickMs
  /\ UNCHANGED <<venue, env, mem, disk, call, last, netEntry>>

\* The process exits and a new one starts: static fields are initialised
\* again, the .cache directory stays.
Restart ==
  /\ mem' = MemInit(venue)
  /\ call' = Idle
  /\ netEntry' = NoNet
  /\ last' = NoCall
  /\ UNCHANGED <<venue, env, now, disk>>

\* the TTL override of a behaviour: none, or three clock steps
EnvChoices ==
  {[n \in EnvNames |-> Unset],
   [n \in EnvNames |-> IF n = "PAIRS_CACHE_TTL_MS" THEN NumText(3 * TickMs) ELSE Unset]}

KeyOff == keyIn = <<WSOL, WSOL>> /\ keyOut = <<>>

\* a missing pool address: undefined, null or the empty string
NoAddress == <<>>

\* no pool resolution was made
NoFound ==
  [status |-> "none", pool |-> NoAddress, error |-> "", listed |-> FALSE,
   trace |-> <<>>]

FindOff ==
  /\ snapshot = <<>>
  /\ pairCache = <<>>
  /\ baseMintToPool = NoAddress
  /\ found = NoFound
  /\ snapPick = NoAddress

\* no buildTransaction call is made
NoRequest ==
  [slippage |-> Num(0), tipAmountSol |-> Num(0), tipAddressEnv |-> "unset",
   direction |-> "buy"]
NotBuilding == [status |-> "idle", contacted |-> FALSE]

BuildOff ==
  /\ req = NoRequest
  /\ tx = <<>>
  /\ build = NotBuilding

\* no SolanaTrade call is made
TradeOff ==
  /\ cfg = <<>>
  /\ treq = <<>>
  /\ trade = [status |-> "idle"]

\* no unit conversion is made
ConvOff == conv = <<>>

\* getCacheTtlMs is not called on its own
TtlOff == ttlUsed = 0

\* no concurrent listing calls are made
RaceOff == racers = <<>>

Init ==
  /\ venue \in ListingVenues
  /\ env \in EnvChoices
  /\ now = StartNow
  /\ mem = MemInit(venue)
  /\ disk = NoDisk
  /\ call = Idle
  /\ last = NoCall
  /\ netEntry = NoNet
  /\ KeyOff
  /\ FindOff
  /\ BuildOff
  /\ TradeOff
  /\ ConvOff
  /\ TtlOff
  /\ RaceOff

Next ==
  \/ \E token \in CallTokens : ServeFromMemory(token) /\ UNCHANGED exceptCache
  \/ \E token \in CallTokens : ServeFromDisk(token) /\ UNCHANGED exceptCache
  \/ \E token \in CallTokens : StartFetch(token) /\ UNCHANGED exceptCache
  \/ \E pools \in SUBSET PoolIds, w \in WriteOutcomes :
       RespondOk(pools, w) /\ UNCHANGED exceptCache
  \/ RespondFail /\ UNCHANGED exceptCache
  \/ Tick /\ UNCHANGED exceptCache
  \/ Restart /\ UNCHANGED exceptCache

Spec == Init /\ [][Next]_vars

-----------------------------------------------------------------------------
(* The pair-key functions, applied to arbitrary mint strings *)

CacheOff ==
  /\ env = [n \in EnvNames |-> Unset]
  /\ now = StartNow
  /\ mem = NoMem
  /\ disk = NoDisk
  /\ call = Idle
  /\ last = NoCall
  /\ netEntry = NoNet

InitKey ==
  /\ venue \in ListingVenues
  /\ keyIn \in MintStrings \X MintStrings
  /\ keyOut = <<>>
  /\ CacheOff
  /\ FindOff
  /\ BuildOff
  /\ TradeOff
  /\ ConvOff
  /\ TtlOff
  /\ RaceOff

\* key(a, b) and key(b, a) are computed
ComputeKey ==
  /\ keyOut = <<>>
  /\ keyOut' = <<PairKey(venue, keyIn[1], keyIn[2]), PairKey(venue, keyIn[2], keyIn[1])>>
  /\ UNCHANGED <<venue, keyIn>>

NextKey == ComputeKey /\ UNCHANGED exceptKey

SpecKey == InitKey /\ [][NextKey]_vars

\* C4 (as claimed): every venue's pair-key function gives (a, b) and (b, a)
\* the same key.
C4_KeyOrderIndependent == keyOut # <<>> => keyOut[1] = keyOut[2]

\* C4 (amended): getPairCacheKey of DAMM v1 and v2 gives (a, b) and (b, a) the
\* same key; normalizeKey of DLMM gives them the same key only when a = b.
C4_KeyOrderIndependentExceptDlmm ==
  keyOut # <<>> =>
    IF venue = DLMM
    THEN (keyOut[1] = keyOut[2]) <=> (keyIn[1] = keyIn[2])
    ELSE keyOut[1] = keyOut[2]

\* C4 witness: a DAMM key was computed for two mints given in descending order.
C4_Witness ==
  /\ keyOut # <<>>
  /\ venue = DAMM_V1
  /\ ~StrLeq(keyIn[1], keyIn[2])

-----------------------------------------------------------------------------
(* Claims about the listing cache *)

\* C1 (as claimed): a listing returned from the memory or disk tier was
\* obtained from the network less than ttl before the moment it is returned.
C1_ServedWithinTtl ==
  (last.status = "ok" /\ last.source \in {"memory", "disk"}) => ~last.stale

\* C2 (as claimed): a call that starts while the entry stored by this
\* process's last successful fetch of the key is younger than ttl sends no
\* network request.
C2_NoRefetchWithinTtl == last.source = "network" => ~last.prevFresh

\* C2 (amended): such a call sends a network request only in DLMM, and only
\* when the fetched listing was empty.
C2_NoRefetchUnlessDlmmEmpty ==
  (last.source = "network" /\ last.prevFresh) => (venue = DLMM /\ last.prevEmpty)

\* C2 witness: a call within ttl of a successful fetch was served from memory.
C2_Witness == last.source = "memory" /\ last.prevFresh /\ last.status = "ok"

C9_FetchErrorPropagates == last.failed => (last.status = "error" /\ last.pools = {})

\* C9 witness: a fetch failed while an entry was still held.
C9_Witness == last.failed /\ last.staleHeld /\ last.hadEntry

-----------------------------------------------------------------------------
(* Pool resolution: MeteoraDlmmClient.findMintWsolPair,                     *)
(* MeteoraDammV1Client.findPoolAddressForMint,                              *)
(* MeteoraDammV2Client.findPoolAddressForMint and                           *)
(* MeteoraDbcClient.resolvePoolAddressForBaseMint                           *)

DBC == "METEORA_DBC"
ResolverVenues == ListingVenues \cup {DBC}

\* the mint a pool is resolved for, and a mint of another pair
Token == <<1>>
OtherToken == <<3>>

\* address of the i-th record of a listing, and the pools the DLMM SDK
\* helper, the DLMM registry scan and the DBC SDK lookup may produce
ListedPool(i) == <<"listed", i>>
HelperPoolTW == <<"helper", 1>>
HelperPoolWT == <<"helper", 2>>
ScanPool == <<"scan", 1>>
DbcPool == <<"dbc", 1>>
\* an SDK call that rejects
Throws == <<"throws">>
IsPool(r) == r # NoAddress /\ r # Throws

\* A field of a listing record holds the text of a number or is absent.
\* Token-side amounts are absent, 0 or 1; the TVL is absent or 2.
ReserveValues == {Unset, NumText(0), NumText(1)}
TvlValues == {Unset, NumText(2)}

\* A listing record: its address, its two mints in the record's order, the
\* amount held of each mint, and its TVL / total liquidity (pool_tvl in DAMM
\* v1, tvl ?? liquidity in DAMM v2, liquidity in DLMM).  The amount of the
\* side that is not the token's is 3, more than any token-side amount.
PoolRecord(addr, mints, tokenAmount, tvl) ==
  [address |-> addr,
   mints |-> mints,
   amounts |-> IF mints[1] = Token THEN <<tokenAmount, NumText(3)>>
               ELSE <<NumText(3), tokenAmount>>,
   tvl |-> tvl]

\* the records that can stand at position i of a listing: a Token/WSOL pool
\* in either mint order, with or without an address, or a pool of another pair
RecordsAt(i) ==
  {PoolRecord(a, m, r, t) :
     a \in {NoAddress, ListedPool(i)}, m \in {<<Token, WSOL>>, <<WSOL, Token>>},
     r \in ReserveValues, t \in TvlValues}
  \cup {PoolRecord(ListedPool(i), <<OtherToken, WSOL>>, NumText(3), NumText(3))}

RECURSIVE SnapshotsOfLen(_)
SnapshotsOfLen(n) ==
  IF n = 0 THEN {<<>>}
  ELSE {Append(s, r) : s \in SnapshotsOfLen(n - 1), r \in RecordsAt(n)}

\* every listing of at most MaxPools records
Snapshots == UNION {SnapshotsOfLen(n) : n \in 0..MaxPools}

\* Number(x) || 0, parseFloat(x ?? '0') || 0 and Number(x ?? 0)
NumberOrZero(x) == LET n == ToNumber(x) IN IF n.nan THEN 0 ELSE n.num

\* the filter of the three resolvers: the record's mints are exactly the
\* token and WSOL, in either order
IsCandidate(it) == it.mints = <<Token, WSOL>> \/ it.mints = <<WSOL, Token>>

\* the token-side amount of a record
TokenReserve(it) ==
  NumberOrZero(IF it.mints[1] = Token THEN it.amounts[1] ELSE it.amounts[2])

TotalLiq(it) == NumberOrZero(it.tvl)

\* const score = tokenReserve > 0 ? tokenReserve : tvl
Score(it) == IF TokenReserve(it) > 0 THEN TokenReserve(it) ELSE TotalLiq(it)

\* the accumulator of the reduce before the first record (null)
NoAcc == [address |-> NoAddress, score |-> 0, null |-> TRUE]

\* mutant of ReduceStep: a record of equal score replaces the accumulator
ReduceStepLastWins(acc, it) ==
  IF acc.null \/ Score(it) >= acc.score
  THEN [address |-> it.address, score |-> Score(it), null |-> FALSE]
  ELSE acc

\* the reduce callback: if (!acc || score > acc.score) return {address, score}
ReduceStep(acc, it) ==
  IF acc.null \/ Score(it) > acc.score
  THEN [address |-> it.address, score |-> Score(it), null |-> FALSE]
  ELSE acc

RECURSIVE Reduce(_, _)
Reduce(acc, items) ==
  IF items = <<>> THEN acc ELSE Reduce(ReduceStep(acc, Head(items)), Tail(items))

\* items.filter(...).reduce(...): the best candidate, NoAcc if there is none
chooseBestPool(items) == Reduce(NoAcc, SelectSeq(items, IsCandidate))

\* outcomes of a resolution; tr is the sequence of strategies invoked, each
\* with the result it produced
Ok(pool, tr) ==
  [status |-> "ok", pool |-> pool, error |-> "", listed |-> TRUE, trace |-> tr]
Failed(err, tr) ==
  [status |-> "error", pool |-> NoAddress, error |-> err, listed |-> TRUE,
   trace |-> tr]
\* the listing call threw: the resolver rethrows before any strategy
Unlisted ==
  [status |-> "error", pool |-> NoAddress, error |-> "FetchFailed",
   listed |-> FALSE, trace |-> <<>>]
Tried(name, result) == [strategy |-> name, result |-> result]

\* mutant of findPoolAddressForMint: the address is returned unchecked
findPoolAddressForMintUnchecked(items) ==
  LET best == chooseBestPool(items)
  IN Ok(best.address, <<Tried("filter", best.address)>>)

\* findPoolAddressForMint of DAMM v1 and DAMM v2, after the listing call
findPoolAddressForMint(items) ==
  LET best == chooseBestPool(items)
      tr == <<Tried("filter", best.address)>>
  IN IF best.address = NoAddress THEN Failed("PoolNotFound", tr)
     ELSE Ok(best.address, tr)

\* the loop of loadPairsFromApiIfNeeded: every record that pairs WSOL with
\* another mint and has an address is stored under both key orders
RECURSIVE LoadPairs(_, _)
LoadPairs(cache, items) ==
  IF items = <<>> THEN cache
  ELSE LET it == Head(items)
           other == IF it.mints[1] = WSOL THEN it.mints[2] ELSE it.mints[1]
       IN IF (it.mints[1] # WSOL /\ it.mints[2] # WSOL) \/ it.address = NoAddress
          THEN LoadPairs(cache, Tail(items))
          ELSE LoadPairs(Put(Put(cache, normalizeKey(other, WSOL), it.address),
                             normalizeKey(WSOL, other), it.address),
                         Tail(items))

\* loadPairsFromApiIfNeeded; fresh: now - cacheLoadedAt < getCacheTtlMs().
\* Its ensureRawPairs call returns the listing findMintWsolPair just got.
loadPairsFromApiIfNeeded(cache, items, fresh) ==
  IF fresh /\ DOMAIN cache # {} THEN cache ELSE LoadPairs(cache, items)

\* Fallback 2: DLMM.getLbPairs and the scan; an error is swallowed
ScanStage(tr, scan) ==
  LET t == Append(tr, Tried("scan", scan))
  IN IF IsPool(scan) THEN Ok(scan, t) ELSE Failed("PoolNotFound", t)

\* mutant of HelperStage: both helper calls are made before either result is
\* looked at
HelperStageEager(tr, tw, wt, scan) ==
  LET t == tr \o <<Tried("helperTW", tw), Tried("helperWT", wt)>>
  IN IF tw = Throws \/ wt = Throws THEN Failed("SdkFailed", t)
     ELSE IF tw # NoAddress THEN Ok(tw, t)
     ELSE IF wt # NoAddress THEN Ok(wt, t)
     ELSE ScanStage(t, scan)

\* Fallback 1: getCustomizablePermissionlessLbPairIfExists(token, wsol), then
\* (wsol, token) if the first found nothing
HelperStage(tr, tw, wt, scan) ==
  LET t1 == Append(tr, Tried("helperTW", tw))
      t2 == Append(t1, Tried("helperWT", wt))
  IN IF tw = Throws THEN Failed("SdkFailed", t1)
     ELSE IF tw # NoAddress THEN Ok(tw, t1)
     ELSE IF wt = Throws THEN Failed("SdkFailed", t2)
     ELSE IF wt # NoAddress THEN Ok(wt, t2)
     ELSE ScanStage(t2, scan)

\* the prebuilt pair map: pairCache.get(key)
PairCacheStage(tr, cache, tw, wt, scan) ==
  LET key == normalizeKey(Token, WSOL)
      cached == IF key \in DOMAIN cache THEN cache[key] ELSE NoAddress
      t == Append(tr, Tried("pairCache", cached))
  IN IF cached # NoAddress THEN Ok(cached, t) ELSE HelperStage(t, tw, wt, scan)

\* MeteoraDlmmClient.findMintWsolPair, after ensureRawPairs returned items;
\* cache is pairCache as loadPairsFromApiIfNeeded leaves it
findMintWsolPair(items, cache, tw, wt, scan) ==
  LET best == chooseBestPool(items)
      tr == <<Tried("filter", best.address)>>
  IN IF best.address # NoAddress THEN Ok(best.address, tr)
     ELSE PairCacheStage(tr, cache, tw, wt, scan)

\* MeteoraDbcClient.resolvePoolAddressForBaseMint; fresh: now - mem.loadedAt
\* < getCacheTtlMs(); sdk: what getPoolByBaseMint produced
resolvePoolAddressForBaseMint(memPool, fresh, sdk) ==
  IF memPool # NoAddress /\ fresh
  THEN Ok(memPool, <<Tried("baseMintToPool", memPool)>>)
  ELSE LET tr == <<Tried("baseMintToPool", NoAddress), Tried("getPoolByBaseMint", sdk)>>
       IN IF sdk = Throws THEN Failed("SdkFailed", tr)
          ELSE IF sdk = NoAddress THEN Failed("PoolNotFound", tr)
          ELSE Ok(sdk, tr)

\* the pool the snapshot path returned first for the current snapshot
Picked(out) ==
  IF /\ snapPick = NoAddress
     /\ out.status = "ok"
     /\ Len(out.trace) = 1
     /\ out.trace[1].strategy = "filter"
  THEN out.pool ELSE snapPick

\* one call of findPoolAddressForMint (DAMM v1, DAMM v2); listed: the listing
\* call returned the snapshot rather than throwing
ResolveDamm ==
  /\ venue \in {DAMM_V1, DAMM_V2}
  /\ \E listed \in BOOLEAN :
       LET out == IF listed THEN findPoolAddressForMint(snapshot) ELSE Unlisted
       IN found' = out /\ snapPick' = Picked(out)
  /\ UNCHANGED <<venue, snapshot, pairCache, baseMintToPool>>

\* the outcomes an SDK call may have; when the call is never reached its
\* outcome is immaterial and only one is drawn
SdkOutcomes(reached, pool) ==
  IF reached THEN {NoAddress, pool, Throws} ELSE {NoAddress}

\* one call of findMintWsolPair (DLMM)
ResolveDlmm ==
  /\ venue = DLMM
  /\ \E listed \in BOOLEAN :
       LET fallback == listed /\ chooseBestPool(snapshot).address = NoAddress
       IN \E fresh \in (IF fallback THEN BOOLEAN ELSE {TRUE}) :
            LET cache == IF fallback
                         THEN loadPairsFromApiIfNeeded(pairCache, snapshot, fresh)
                         ELSE pairCache
                helper == fallback /\ normalizeKey(Token, WSOL) \notin DOMAIN cache
            IN \E tw \in SdkOutcomes(helper, HelperPoolTW) :
                 \E wt \in SdkOutcomes(helper /\ tw = NoAddress, HelperPoolWT) :
                   \E scan \in SdkOutcomes(helper /\ tw = NoAddress /\ wt = NoAddress,
                                           ScanPool) :
                     LET out == IF listed
                                THEN findMintWsolPair(snapshot, cache, tw, wt, scan)
                                ELSE Unlisted
                     IN found' = out /\ pairCache' = cache /\ snapPick' = Picked(out)
  /\ UNCHANGED <<venue, snapshot, baseMintToPool>>

\* one call of resolvePoolAddressForBaseMint (DBC)
ResolveDbc ==
  /\ venue = DBC
  /\ \E fresh \in BOOLEAN, sdk \in SdkOutcomes(TRUE, DbcPool) :
       LET out == resolvePoolAddressForBaseMint(baseMintToPool, fresh, sdk)
       IN /\ found' = out
          /\ baseMintToPool' =
               IF out.status = "ok" /\ Len(out.trace) = 2 THEN out.pool
               ELSE baseMintToPool
  /\ UNCHANGED <<venue, snapshot, pairCache, snapPick>>

\* the venue API stops listing the first record: the next listing call
\* returns the remaining ones
Delist ==
  /\ venue \in ListingVenues
  /\ snapshot # <<>>
  /\ snapshot' = Tail(snapshot)
  /\ found' = NoFound
  /\ snapPick' = NoAddress
  /\ UNCHANGED <<venue, pairCache, baseMintToPool>>

InitFind ==
  /\ venue \in ResolverVenues
  /\ snapshot \in (IF venue = DBC THEN {<<>>} ELSE Snapshots)
  /\ pairCache = <<>>
  /\ baseMintToPool = NoAddress
  /\ found = NoFound
  /\ snapPick = NoAddress
  /\ CacheOff
  /\ KeyOff
  /\ BuildOff
  /\ TradeOff
  /\ ConvOff
  /\ TtlOff
  /\ RaceOff

NextFind ==
  \/ ResolveDamm /\ UNCHANGED exceptFind
  \/ ResolveDlmm /\ UNCHANGED exceptFind
  \/ ResolveDbc /\ UNCHANGED exceptFind
  \/ Delist /\ UNCHANGED exceptFind

SpecFind == InitFind /\ [][NextFind]_vars

-----------------------------------------------------------------------------
(* Claims about pool resolution *)

\* the candidate records of the snapshot, in iteration order
Candidates == SelectSeq(snapshot, IsCandidate)

\* the last resolution returned a pool straight from the snapshot filter
FromSnapshot ==
  found.status = "ok" /\ Len(found.trace) = 1 /\ found.trace[1].strategy = "filter"

\* C5 (as claimed): with two candidate pools (each with an address) in the
\* snapshot, the resolver
\* returns the one with the larger token-side reserve (an absent reserve
\* counting as zero); when both reserves are zero it returns the one with the
\* higher TVL.
C5_LargerReserveWins ==
  (/\ FromSnapshot
   /\ Len(Candidates) = 2
   /\ \A i \in 1..2 : Candidates[i].address # NoAddress) =>
    LET a == Candidates[1]
        b == Candidates[2]
    IN /\ TokenReserve(a) > TokenReserve(b) => found.pool = a.address
       /\ TokenReserve(b) > TokenReserve(a) => found.pool = b.address
       /\ (TokenReserve(a) = 0 /\ TokenReserve(b) = 0) =>
            /\ TotalLiq(a) > TotalLiq(b) => found.pool = a.address
            /\ TotalLiq(b) > TotalLiq(a) => found.pool = b.address

\* C6: a pool returned from the snapshot is the first candidate, in iteration
\* order, whose score is the highest score of all candidates; and every
\* resolution of the same snapshot that returns from the snapshot returns the
\* same pool.
C6_FirstBestWins ==
  FromSnapshot =>
    /\ \E i \in 1..Len(Candidates) :
         /\ found.pool = Candidates[i].address
         /\ \A j \in 1..Len(Candidates) : Score(Candidates[j]) <= Score(Candidates[i])
         /\ \A j \in 1..(i - 1) : Score(Candidates[j]) < Score(Candidates[i])
    /\ found.pool = snapPick

\* C6 witness: two candidates tie at the best score and the first of them
\* was returned.
C6_Witness ==
  /\ FromSnapshot
  /\ Len(Candidates) = 2
  /\ Score(Candidates[1]) = Score(Candidates[2])
  /\ Candidates[2].address # NoAddress
  /\ found.pool = Candidates[1].address

\* the strategies of findMintWsolPair in source order
DlmmOrder == <<"filter", "pairCache", "helperTW", "helperWT", "scan">>

\* C7: findMintWsolPair invokes its strategies in the order snapshot filter,
\* pair map of the snapshot, SDK helper (token/WSOL), SDK helper (WSOL/token),
\* registry scan; a strategy is invoked only after every earlier one produced
\* no pool, and a pool produced by a strategy is returned with no later
\* strategy invoked.
C7_FallbackOrder ==
  (venue = DLMM /\ found.listed) =>
    LET tr == found.trace
        n == Len(tr)
    IN /\ n \in 1..Len(DlmmOrder)
       /\ \A i \in 1..n : tr[i].strategy = DlmmOrder[i]
       /\ \A i \in 1..(n - 1) : tr[i].result = NoAddress
       /\ IsPool(tr[n].result) => (found.status = "ok" /\ found.pool = tr[n].result)
       /\ n < Len(DlmmOrder) => tr[n].result # NoAddress

\* C7 witness: the helper's second call produced the pool after the filter,
\* the pair map and the helper's first call produced none.
C7_Witness ==
  /\ venue = DLMM
  /\ found.status = "ok"
  /\ Len(found.trace) = 4
  /\ found.pool = HelperPoolWT

\* C8: a resolution that succeeds returns a pool address; and when the
\* snapshot has no candidate record and every strategy invoked produced no
\* pool, the resolution ends with the pool-not-found error.
C8_NotFoundIsAnError ==
  /\ found.status = "ok" => IsPool(found.pool)
  /\ (/\ found.status # "none"
      /\ found.listed
      /\ Len(Candidates) = 0
      /\ \A i \in 1..Len(found.trace) : found.trace[i].result \in {NoAddress, Throws}
      /\ \A i \in 1..Len(found.trace) :
           found.trace[i].result = Throws => found.trace[i].strategy = "scan")
       => (found.status = "error" /\ found.error = "PoolNotFound")

\* C8 witness: DLMM exhausted the filter, the pair map, both helper calls and
\* the scan, and ended with the pool-not-found error.
C8_Witness ==
  /\ venue = DLMM
  /\ Len(found.trace) = 5
  /\ found.trace[5].result = NoAddress
  /\ found.status = "error"
  /\ found.error = "PoolNotFound"

-----------------------------------------------------------------------------
(* buildTransaction (builder.ts) *)

\* Slippage is counted in hundredths: Num(100) is the fraction 1.
SlippageZero == Num(0)
SlippageOne == Num(100)

\* slippage values a caller may pass: any JavaScript number
Slippages ==
  {NaN, NegInfinity, PosInfinity, Num(-100), Num(-1), Num(0), Num(1), Num(50),
   Num(100), Num(101), Num(200)}

\* tipAmountSol values, in lamports
TipAmounts == {Num(-1), Num(0), Num(1000)}

\* process.env.TIP_ADDRESS: unset, a valid public key, or text that
\* new PublicKey rejects
TipAddressEnvs == {"unset", "valid", "invalid"}

\* a market createMarketClient does not know
UnknownMarket == "UNKNOWN"
Directions == {"buy", "sell", "swap"}

\* if (slippage < 0 || slippage > 1) throw
SlippageRejected(slippage) ==
  JsLess(slippage, SlippageZero) \/ JsLess(SlippageOne, slippage)

\* the optional tip of buildTransaction: added when tipAmountSol > 0 and
\* TIP_ADDRESS holds a valid public key
TipInstructions(r) ==
  IF JsLess(Num(0), r.tipAmountSol) /\ r.tipAddressEnv = "valid"
  THEN <<"tip">> ELSE <<>>

\* buildTransaction up to its await of the venue client: validation, the
\* compute-budget instructions (one entry stands for the list
\* createComputeBudgetInstructions returns), the optional tip, the choice of
\* client and direction, and the call of the client
BuildStart ==
  /\ build.status = "idle"
  /\ IF SlippageRejected(req.slippage)
     THEN /\ build' = [status |-> "rejected", contacted |-> FALSE]
          /\ tx' = tx
     ELSE /\ tx' = <<"computeBudget">> \o TipInstructions(req)
          /\ build' =
               IF venue = UnknownMarket \/ req.direction \notin {"buy", "sell"}
               THEN [status |-> "failed", contacted |-> FALSE]
               ELSE [status |-> "awaiting", contacted |-> TRUE]
  /\ UNCHANGED <<venue, req>>

\* the venue client returns n instructions: they are added and the
\* transaction is returned
VenueReturns(n) ==
  /\ build.status = "awaiting"
  /\ tx' = tx \o [i \in 1..n |-> "market"]
  /\ build' = [build EXCEPT !.status = "built"]
  /\ UNCHANGED <<venue, req>>

\* the venue client throws: buildTransaction rethrows
VenueThrows ==
  /\ build.status = "awaiting"
  /\ build' = [build EXCEPT !.status = "failed"]
  /\ UNCHANGED <<venue, req, tx>>

InitBuild ==
  /\ venue \in ResolverVenues \cup {UnknownMarket}
  /\ req \in [slippage : Slippages, tipAmountSol : TipAmounts,
              tipAddressEnv : TipAddressEnvs, direction : Directions]
  /\ tx = <<>>
  /\ build = NotBuilding
  /\ CacheOff
  /\ KeyOff
  /\ FindOff
  /\ TradeOff
  /\ ConvOff
  /\ TtlOff
  /\ RaceOff

NextBuild ==
  \/ BuildStart /\ UNCHANGED exceptBuild
  \/ \E n \in 0..MaxMarketIx : VenueReturns(n) /\ UNCHANGED exceptBuild
  \/ VenueThrows /\ UNCHANGED exceptBuild

SpecBuild == InitBuild /\ [][NextBuild]_vars

\* the slippage is a number of the interval [0, 1]
SlippageInRange ==
  /\ ~req.slippage.nan
  /\ req.slippage.inf = 0
  /\ req.slippage.num >= 0
  /\ req.slippage.num <= 100

\* C10 (as claimed): a call whose slippage is not in [0, 1] is rejected with
\* no instruction added and no venue client called; a call whose slippage is
\* in [0, 1], the ends included, is not rejected.
C10_SlippageRangeEnforced ==
  build.status # "idle" =>
    /\ ~SlippageInRange => (build.status = "rejected" /\ tx = <<>> /\ ~build.contacted)
    /\ SlippageInRange => build.status # "rejected"

-----------------------------------------------------------------------------
(* SolanaTrade (trader.ts): relay-provider routing *)

\* the accelerated senders (Providers.* of helpers/constants); NoProvider is
\* the undefined that chooseProvider returns for the standard sender
ASTRALANE == "ASTRALANE"
NOZOMI == "NOZOMI"
JITO == "JITO"
Accelerated == {ASTRALANE, NOZOMI, JITO}
NoProvider == ""
STANDARD == "STANDARD"

\* Amounts of SOL are counted in micro-SOL: 0.001 SOL is 1000.
NozomiThreshold == 1000

\* x || 0 on a number: 0 for NaN and for 0
OrZero(x) == IF x.nan \/ x = Num(0) THEN Num(0) ELSE x

\* a <= b on JavaScript numbers
JsLeq(a, b) == ~a.nan /\ ~b.nan /\ ~JsLess(b, a)

\* Math.max(a, b): NaN if an operand is NaN
JsMax(a, b) == IF a.nan \/ b.nan THEN NaN ELSE IF JsLess(a, b) THEN b ELSE a

\* mutant of chooseProvider: the boundary tip goes to the low-tip sender
chooseProviderAboveOnly(provided, tipAmountSol) ==
  LET tip == OrZero(tipAmountSol)
  IN IF JsLeq(tip, Num(0)) THEN NoProvider
     ELSE IF provided \in Accelerated THEN provided
     ELSE IF JsLess(Num(NozomiThreshold), tip) THEN NOZOMI
     ELSE ASTRALANE

\* mutant of chooseProvider: an explicit sender is honoured without a tip
chooseProviderAnyTip(provided, tipAmountSol) ==
  LET tip == OrZero(tipAmountSol)
  IN IF provided \in Accelerated THEN provided
     ELSE IF JsLeq(tip, Num(0)) THEN NoProvider
     ELSE IF JsLeq(Num(NozomiThreshold), tip) THEN NOZOMI
     ELSE ASTRALANE

\* SolanaTrade.chooseProvider
chooseProvider(provided, tipAmountSol) ==
  LET tip == OrZero(tipAmountSol)
  IN IF JsLeq(tip, Num(0)) THEN NoProvider
     ELSE IF provided \in Accelerated THEN provided
     ELSE IF JsLeq(Num(NozomiThreshold), tip) THEN NOZOMI
     ELSE ASTRALANE

\* region names; NoRegion is an absent (undefined or empty) region
NoRegion == ""

\* String.prototype.toUpperCase on the region names of the model
ToUpperCase(s) ==
  CASE s = "fra" -> "FRA"
    [] s = "ny" -> "NY"
    [] s = "Ny" -> "NY"
    [] s = "ams" -> "AMS"
    [] OTHER -> s

\* the regions a caller may ask for
RequestedRegions == {NoRegion, "fra", "Ny"}

\* NOZOMI_REGIONS, ASTRALANE_REGIONS and JITO_REGIONS as they may be
\* configured: provider -> keys of its table (every value is an endpoint URL)
RegionTables ==
  {[p \in Accelerated |-> {}],
   (NOZOMI :> {"FRA", "NY"}) @@ (ASTRALANE :> {"FRA", "AMS"}) @@ (JITO :> {"NY", "TYO"}),
   (NOZOMI :> {"fra", "NY"}) @@ (ASTRALANE :> {"fra", "AMS"}) @@ (JITO :> {"ny", "TYO"})}

\* mutant of chooseRegion: the caller's region is not looked at
chooseRegionAnyEntry(provider, desiredRegion, tables) ==
  IF provider = NoProvider THEN {NoRegion}
  ELSE IF tables[provider] = {} THEN {NoRegion} ELSE tables[provider]

\* the region chooseRegion may return: Math.random picks any entry
chooseRegion(provider, desiredRegion, tables) ==
  IF provider = NoProvider THEN {NoRegion}
  ELSE LET entries == tables[provider]
       IN IF entries = {} THEN {NoRegion}
          ELSE IF desiredRegion # NoRegion /\ ToUpperCase(desiredRegion) \in entries
          THEN {ToUpperCase(desiredRegion)}
          ELSE entries

\* NOZOMI_MIN_TIP_SOL, ASTRALANE_MIN_TIP_SOL and JITO_MIN_TIP_SOL in micro-SOL
\* (the comments of chooseProvider give 0.001 and 0.00001)
MinTipSol(provider) ==
  CASE provider = NOZOMI -> Num(1000)
    [] provider = ASTRALANE -> Num(10)
    [] OTHER -> Num(1000)

\* a tip address: the i-th entry of a provider's list
TipAddress(provider, i) == <<provider, i>>

\* NOZOMI_TIP_ADDRESSES, ASTRALANE_TIP_ADDRESSES and JITO_TIP_ADDRESSES as
\* they may be configured: every list filled, or every list empty
TipAddressTables ==
  {[p \in Accelerated |-> {}],
   [p \in Accelerated |-> {TipAddress(p, 1), TipAddress(p, 2)}]}

NoTipAddress == <<"", 0>>
NoRelayTip == [added |-> FALSE, tipAddress |-> NoTipAddress, finalTip |-> Num(0)]

\* mutant of computeProviderTip: the user's tip is used as it is
computeProviderTipNoMin(provider, userTip, lists) ==
  {[threw |-> FALSE, tipAddress |-> addr, finalTip |-> OrZero(userTip)] :
     addr \in lists[provider]}
  \cup {[threw |-> TRUE, tipAddress |-> NoTipAddress, finalTip |-> Num(0)] :
          x \in IF lists[provider] = {} THEN {0} ELSE {}}

\* SolanaTrade.computeProviderTip: the results it may give (Math.random picks
\* any entry of the list); with an empty list, list[0] is undefined and
\* new PublicKey(undefined) throws
computeProviderTip(provider, userTip, lists) ==
  {[threw |-> FALSE, tipAddress |-> addr,
    finalTip |-> JsMax(OrZero(userTip), MinTipSol(provider))] :
     addr \in lists[provider]}
  \cup {[threw |-> TRUE, tipAddress |-> NoTipAddress, finalTip |-> Num(0)] :
          x \in IF lists[provider] = {} THEN {0} ELSE {}}

\* Number.isFinite
IsFinite(x) == ~x.nan /\ x.inf = 0

\* Math.min(a, b): NaN if an operand is NaN
JsMin(a, b) == IF a.nan \/ b.nan THEN NaN ELSE IF JsLess(b, a) THEN b ELSE a

\* mutant of normalizeSlippage: the percentage is not clamped
normalizeSlippageNoClamp(slippagePercent) == slippagePercent

\* SolanaTrade.normalizeSlippage on a finite percentage: the percentage p is
\* clamped to 0..100 and divided by 100; the fraction is counted in
\* hundredths as in buildTransaction, so p percent is the fraction of p
\* hundredths
normalizeSlippage(slippagePercent) ==
  JsMax(Num(0), JsMin(Num(100), slippagePercent))

\* (amount || 0) * DEV_TIP_RATE for a finite amount
devTipSol(amount, rate) == Num(OrZero(amount).num * rate)

\* buildTransaction up to its await of the venue client, as a function of
\* the market and of its parameters
BuildEntry(market, r) ==
  IF SlippageRejected(r.slippage)
  THEN [tx |-> <<>>, build |-> [status |-> "rejected", contacted |-> FALSE]]
  ELSE [tx |-> <<"computeBudget">> \o TipInstructions(r),
        build |-> IF market = UnknownMarket \/ r.direction \notin {"buy", "sell"}
                  THEN [status |-> "failed", contacted |-> FALSE]
                  ELSE [status |-> "awaiting", contacted |-> TRUE]]

\* an optional parameter: given with a value, or left out
Given(v) == [given |-> TRUE, value |-> v]
Absent == [given |-> FALSE, value |-> Num(0)]

\* destructuring with a default: const { x = d } = params
DefaultTo(x, d) == IF x.given THEN x.value ELSE d

\* tipAmountSol as trade sees it (tipAmountSol = 0 when left out)
tipAmountSol == DefaultTo(treq.tipAmountSol, Num(0))

\* the senders a caller may name: none, or one of the three accelerated ones
ProvidedSenders == {NoProvider} \cup Accelerated

\* the tips a caller may pass, in micro-SOL: left out, zero, negative, NaN,
\* below every minimum, between the minima, the 0.001 boundary, above it
TradeTips ==
  {Absent, Given(Num(0)), Given(Num(-1)), Given(NaN), Given(Num(5)),
   Given(Num(500)), Given(Num(1000)), Given(Num(2000))}

\* the slippage percentages a caller may pass
TradeSlippages == {NaN, PosInfinity, Num(-5), Num(50), Num(150)}

\* the amounts a caller may pass
TradeAmounts == {Num(0), Num(3)}

\* DEV_TIP_RATE as it may be configured: no developer tip, or a positive rate
DevTipRates == {0, 1}

IdleTrade ==
  [status |-> "idle", error |-> "", provider |-> NoProvider, region |-> NoRegion,
   relay |-> NoRelayTip, backend |-> "", handedTip |-> Num(0),
   handedRegion |-> NoRegion]

\* trade (called by buy and sell) up to the await of the venue client inside
\* buildTransaction: the parameters are normalised, the provider and the
\* region are chosen, and buildTransaction is entered without a tip
TradeStart ==
  /\ trade.status = "idle"
  /\ IF ~IsFinite(treq.slippage)
     THEN /\ trade' = [trade EXCEPT !.status = "failed",
                                    !.error = "Invalid slippage"]
          /\ UNCHANGED <<req, tx, build>>
     ELSE \E region \in chooseRegion(chooseProvider(treq.sender, tipAmountSol),
                                     treq.region, cfg.regions) :
            LET provider == chooseProvider(treq.sender, tipAmountSol)
                params == [slippage |-> normalizeSlippage(treq.slippage),
                           tipAmountSol |-> NaN,
                           tipAddressEnv |-> cfg.tipAddressEnv,
                           direction |-> treq.direction]
                entry == BuildEntry(venue, params)
            IN /\ req' = params
               /\ tx' = entry.tx
               /\ build' = entry.build
               /\ trade' = [trade EXCEPT
                            !.status = IF entry.build.status = "awaiting"
                                       THEN "building" ELSE "failed",
                            !.error = IF entry.build.status = "awaiting"
                                      THEN "" ELSE "buildTransaction",
                            !.provider = provider, !.region = region]
  /\ UNCHANGED <<venue, cfg, treq>>

\* the instructions trade adds for the developer: on a buy whose amount
\* times DEV_TIP_RATE is positive
DevTipInstructions ==
  IF treq.direction = "buy" /\ JsLess(Num(0), devTipSol(treq.amount, cfg.devTipRate))
  THEN <<"devTip">> ELSE <<>>

\* the venue client returns n instructions: buildTransaction adds them and
\* returns; trade adds the developer tip and the relay tip, and then returns
\* the transaction (send = false) or calls the sender of the provider
TradeVenueReturns(n) ==
  /\ trade.status = "building"
  /\ build' = [build EXCEPT !.status = "built"]
  /\ LET built == (tx \o [i \in 1..n |-> "market"]) \o DevTipInstructions
         backend == IF trade.provider = NoProvider THEN STANDARD ELSE trade.provider
         Finish(t) ==
           IF ~treq.send
           THEN [t EXCEPT !.status = "returned"]
           ELSE [t EXCEPT !.status = "sending", !.backend = backend,
                          !.handedTip = tipAmountSol,
                          !.handedRegion = IF backend = STANDARD
                                           THEN NoRegion ELSE trade.region]
     IN IF trade.provider # NoProvider /\ JsLess(Num(0), OrZero(tipAmountSol))
        THEN \E r \in computeProviderTip(trade.provider, tipAmountSol, cfg.tipAddresses) :
               IF r.threw
               THEN /\ tx' = built
                    /\ trade' = [trade EXCEPT !.status = "failed",
                                              !.error = "computeProviderTip"]
               ELSE /\ tx' = built \o (IF JsLess(Num(0), r.finalTip)
                                       THEN <<"relayTip">> ELSE <<>>)
                    /\ trade' = Finish([trade EXCEPT !.relay =
                                          IF JsLess(Num(0), r.finalTip)
                                          THEN [added |-> TRUE,
                                                tipAddress |-> r.tipAddress,
                                                finalTip |-> r.finalTip]
                                          ELSE NoRelayTip])
        ELSE /\ tx' = built
             /\ trade' = Finish(trade)
  /\ UNCHANGED <<venue, cfg, treq, req>>

\* the venue client throws: buildTransaction and trade rethrow
TradeVenueThrows ==
  /\ trade.status = "building"
  /\ build' = [build EXCEPT !.status = "failed"]
  /\ trade' = [trade EXCEPT !.status = "failed", !.error = "buildTransaction"]
  /\ UNCHANGED <<venue, cfg, treq, req, tx>>

\* the sender returns a signature: trade returns it
SenderReturns ==
  /\ trade.status = "sending"
  /\ trade' = [trade EXCEPT !.status = "sent"]
  /\ UNCHANGED <<venue, cfg, treq, req, tx, build>>

\* the sender throws: trade rethrows
SenderThrows ==
  /\ trade.status = "sending"
  /\ trade' = [trade EXCEPT !.status = "failed", !.error = "sendTransaction"]
  /\ UNCHANGED <<venue, cfg, treq, req, tx, build>>

InitTrade ==
  /\ venue \in {DLMM, UnknownMarket}
  /\ cfg \in [devTipRate : DevTipRates, regions : RegionTables,
              tipAddresses : TipAddressTables, tipAddressEnv : {"unset", "valid"}]
  /\ treq \in [direction : {"buy", "sell"}, amount : TradeAmounts,
               slippage : TradeSlippages, tipAmountSol : TradeTips,
               sender : ProvidedSenders, region : RequestedRegions,
               send : BOOLEAN]
  /\ trade = IdleTrade
  /\ req = NoRequest
  /\ tx = <<>>
  /\ build = NotBuilding
  /\ CacheOff
  /\ KeyOff
  /\ FindOff
  /\ ConvOff
  /\ TtlOff
  /\ RaceOff

NextTrade ==
  \/ TradeStart /\ UNCHANGED exceptTrade
  \/ \E n \in 0..MaxMarketIx : TradeVenueReturns(n) /\ UNCHANGED exceptTrade
  \/ TradeVenueThrows /\ UNCHANGED exceptTrade
  \/ SenderReturns /\ UNCHANGED exceptTrade
  \/ SenderThrows /\ UNCHANGED exceptTrade

SpecTrade == InitTrade /\ [][NextTrade]_vars

-----------------------------------------------------------------------------
(* Claims about SolanaTrade.trade *)

\* the place of an instruction in the claimed order
IxClass(ix) ==
  CASE ix = "computeBudget" -> 0
    [] ix \in {"tip", "devTip", "relayTip"} -> 1
    [] OTHER -> 2

\* trade has produced its transaction: returned it, or handed it to a sender
Produced == trade.status \in {"returned", "sending", "sent"}

\* C11 (as claimed): in every transaction trade produces, compute-budget
\* instructions come first, tip instructions next and the venue's swap
\* instructions last.
C11_InstructionOrder ==
  Produced =>
    \A i, j \in 1..Len(tx) : i < j => IxClass(tx[i]) <= IxClass(tx[j])

\* the number of tip instructions of the transaction
TipCount == Cardinality({i \in 1..Len(tx) : IxClass(tx[i]) = 1})

\* C12 (as claimed): a transaction trade produces holds no tip instruction
\* when the requested tip is 0 and exactly one when the requested tip is
\* positive.
C12_TipInstructionCount ==
  Produced =>
    /\ tipAmountSol = Num(0) => TipCount = 0
    /\ JsLess(Num(0), tipAmountSol) => TipCount = 1

\* C13: when the requested tip is absent or <= 0, the standard sender is
\* chosen whatever sender or region the caller named, it is the sender that
\* receives the transaction, and no relay tip instruction is added; an
\* accelerated sender is used only with a tip > 0.
C13_NoTipMeansStandard ==
  /\ (trade.status # "idle" /\ JsLeq(tipAmountSol, Num(0))) =>
       /\ trade.provider = NoProvider
       /\ ~trade.relay.added
       /\ \A i \in 1..Len(tx) : tx[i] # "relayTip"
       /\ trade.status \in {"sending", "sent"} =>
            trade.backend = STANDARD /\ trade.handedRegion = NoRegion
  /\ (trade.status \in {"sending", "sent"} /\ trade.backend \in Accelerated) =>
       JsLess(Num(0), tipAmountSol)

\* C13 witness: a call naming an accelerated sender and a region, with a
\* negative tip, has its transaction handed to the standard sender
C13_Witness ==
  /\ trade.status = "sending"
  /\ trade.backend = STANDARD
  /\ treq.sender = JITO
  /\ treq.region = "Ny"
  /\ treq.tipAmountSol = Given(Num(-1))

\* trade has chosen its provider and region (its slippage was finite)
Routed == trade.status # "idle" /\ trade.error # "Invalid slippage"

OwnRegions == cfg.regions[trade.provider]

\* C15 (as claimed): with an accelerated sender chosen, the selected region
\* is a key of that sender's region table, and it is the key the caller's
\* region matches ignoring letter case when there is one; with the standard
\* sender no region is selected.
C15_RegionOfOwnTable ==
  Routed =>
    /\ trade.provider \in Accelerated =>
         /\ trade.region \in OwnRegions
         /\ \A k \in OwnRegions :
              (treq.region # NoRegion /\ ToUpperCase(treq.region) = ToUpperCase(k))
                => trade.region = k
    /\ trade.provider = NoProvider => trade.region = NoRegion

\* C15 (amended): with an accelerated sender chosen whose region table is
\* not empty, the selected region is a key of that table, and it is the
\* caller's region converted to upper case when that is a key; with an empty
\* table, or with the standard sender, no region is selected.
C15_RegionChoice ==
  Routed =>
    /\ (trade.provider \in Accelerated /\ OwnRegions # {}) =>
         /\ trade.region \in OwnRegions
         /\ (treq.region # NoRegion /\ ToUpperCase(treq.region) \in OwnRegions)
              => trade.region = ToUpperCase(treq.region)
    /\ (trade.provider \in Accelerated /\ OwnRegions = {}) => trade.region = NoRegion
    /\ trade.provider = NoProvider => trade.region = NoRegion

\* C15 witness: a call asking for region "fra" is sent through NOZOMI with
\* the table key "FRA", the table holding another key as well
C15_Witness ==
  /\ trade.status = "sending"
  /\ trade.backend = NOZOMI
  /\ treq.region = "fra"
  /\ OwnRegions = {"FRA", "NY"}
  /\ trade.handedRegion = "FRA"

\* C16: a relay tip instruction added for the accelerated sender P carries
\* the larger of the requested tip and P's minimum tip, and goes to an
\* address of P's own list and of no other sender's list.
C16_RelayTipAmountAndAddress ==
  trade.relay.added =>
    /\ trade.provider \in Accelerated
    /\ trade.relay.finalTip =
         Num(IF tipAmountSol.num >= MinTipSol(trade.provider).num
             THEN tipAmountSol.num ELSE MinTipSol(trade.provider).num)
    /\ trade.relay.tipAddress \in cfg.tipAddresses[trade.provider]
    /\ \A q \in Accelerated \ {trade.provider} :
         trade.relay.tipAddress \notin cfg.tipAddresses[q]

\* C16 witness: a tip of 0.0005 SOL sent through NOZOMI by name was raised
\* to NOZOMI's minimum of 0.001 SOL in the relay tip instruction
C16_Witness ==
  /\ trade.relay.added
  /\ trade.provider = NOZOMI
  /\ tipAmountSol = Num(500)
  /\ trade.relay.finalTip = Num(1000)
  /\ tx[Len(tx)] = "relayTip"

\* C17 (as claimed): when the accelerated sender chosen has no tip address
\* configured, the call does not fail for that reason: the transaction goes
\* to the standard sender.
C17_MissingTipAddressesDegrade ==
  (Routed /\ trade.provider \in Accelerated /\ cfg.tipAddresses[trade.provider] = {}) =>
    /\ trade.error # "computeProviderTip"
    /\ trade.status \in {"sending", "sent"} => trade.backend = STANDARD

-----------------------------------------------------------------------------
(* Venue adapters: getBuyInstructions and getSellInstructions *)

MaxMant == 11
MaxSdkIx == 2

RAYDIUM_CLMM == "RAYDIUM_CLMM"
AdapterVenues == {DLMM, DAMM_V1, DAMM_V2, DBC, RAYDIUM_CLMM}

\* LAMPORTS_PER_SOL is 10^9
LamportsExp == 9
\* decimals ?? 6
DefaultDecimals == 6
\* a decimals field that is undefined
NoDecimals == -1

RECURSIVE Pow10(_)
Pow10(k) == IF k = 0 THEN 1 ELSE 10 * Pow10(k - 1)

\* mutant of RoundDiv: the quotient is truncated
RoundDivFloor(a, b) == a \div b

\* Math.round(a / b) for integers a and b > 0: the nearest integer, a half
\* going up
RoundDiv(a, b) == (2 * a + b) \div (2 * b)

\* a human amount: mant * 10^-exp
Amount(mant, exp) == [mant |-> mant, exp |-> exp]

\* Math.round(x * 10^d) for the amount x, in exact arithmetic
ToBaseUnits(x, d) ==
  IF d >= x.exp THEN x.mant * Pow10(d - x.exp)
  ELSE RoundDiv(x.mant, Pow10(x.exp - d))

\* the decimal count an adapter uses: 9 for SOL on a buy; on a sell the
\* decimals of the mint, with 6 for a missing field in the DLMM and DBC
\* clients
DecimalsUsed(market, direction, decimals) ==
  IF direction = "buy" THEN LamportsExp
  ELSE IF decimals = NoDecimals /\ market \in {DLMM, DBC} THEN DefaultDecimals
  ELSE decimals

\* Math.round(x / den) on a JavaScript number x
JsRoundDiv(x, den) ==
  IF x.nan \/ x.inf # 0 THEN x ELSE Num(RoundDiv(x.num, den))

\* Slippage fractions are counted in units of 10^-5: 1 is 100000.
\* Math.max(lo, Math.min(hi, x))
Clamp(lo, hi, x) == JsMax(Num(lo), JsMin(Num(hi), x))

\* a native slippage bound: value / scale, in the unit named
Bound(unit, value, scale) == [unit |-> unit, value |-> value, scale |-> scale]

\* the bound each adapter derives from the slippage fraction:
\* DLMM and DBC, Math.max(0, Math.min(10000, Math.round(s * 10000))) bps;
\* DAMM v2, Math.round(Math.max(0, Math.min(100, s * 100)) * 100) / 100 percent;
\* DAMM v1, Math.max(1, Math.min(100, Math.round(s * 100))) percent;
\* Raydium CLMM hands the fraction to its SDK as it is
NativeBound(market, s) ==
  CASE market \in {DLMM, DBC} -> Bound("bps", Clamp(0, 10000, JsRoundDiv(s, 10)), 1)
    [] market = DAMM_V2 -> Bound("percent", JsRoundDiv(Clamp(0, 100000, s), 10), 100)
    [] market = DAMM_V1 -> Bound("percent", Clamp(1, 100, JsRoundDiv(s, 1000)), 1)
    [] OTHER -> Bound("fraction", s, 100000)

\* ixs.filter(ix => !ix.programId.equals(ComputeBudgetProgram.programId))
stripNonEssentialInstructions(ixs) == SelectSeq(ixs, LAMBDA ix : ix # "computeBudget")

\* the instructions an adapter returns from those its SDK built: the
\* Meteora clients strip, the Raydium CLMM client returns them as they are
ReturnedInstructions(market, ixs) ==
  IF market = RAYDIUM_CLMM THEN ixs ELSE stripNonEssentialInstructions(ixs)

RECURSIVE SeqsUpTo(_, _)
\* the sequences over S of length at most n
SeqsUpTo(S, n) ==
  IF n = 0 THEN {<<>>}
  ELSE SeqsUpTo(S, n - 1)
       \cup {Append(q, x) : q \in {r \in SeqsUpTo(S, n - 1) : Len(r) = n - 1}, x \in S}

\* the slippage fractions an adapter may be handed
AdapterSlippages ==
  {NaN, NegInfinity, PosInfinity, Num(-1000), Num(0), Num(4), Num(5), Num(149),
   Num(1490), Num(50000), Num(100000), Num(200000)}

\* how many digits an amount may have beyond, or short of, the base unit
ExpOffsets == {-1, 0, 1, 2}
MintDecimals == {NoDecimals, 0, 6}

NoBound == Bound("", Num(0), 1)

\* getBuyInstructions / getSellInstructions of the market's client: the
\* amount in base units, the slippage bound, and the instructions returned
AdapterCall(direction) ==
  /\ conv.stage = "called"
  /\ conv.direction = direction
  /\ conv' = [conv EXCEPT
       !.stage = "returned",
       !.baseUnits = ToBaseUnits(conv.amount,
                       DecimalsUsed(venue, direction, conv.decimals)),
       !.bound = NativeBound(venue, conv.slippage),
       !.instructions = ReturnedInstructions(venue, conv.sdk)]
  /\ UNCHANGED venue

getBuyInstructions == AdapterCall("buy")
getSellInstructions == AdapterCall("sell")

\* buildTransaction adds the instructions of the client after its own
\* compute-budget instructions
BuilderAdds ==
  /\ conv.stage = "returned"
  /\ conv' = [conv EXCEPT !.stage = "added",
                          !.final = <<"computeBudget">> \o conv.instructions]
  /\ UNCHANGED venue

InitConv ==
  /\ venue \in AdapterVenues
  /\ \E direction \in {"buy", "sell"}, mant \in 0..MaxMant, off \in ExpOffsets,
        decimals \in MintDecimals, s \in AdapterSlippages,
        sdk \in SeqsUpTo({"computeBudget", "swap"}, MaxSdkIx) :
       /\ decimals = NoDecimals => venue \in {DLMM, DBC}
       /\ conv = [stage |-> "called", direction |-> direction,
                  amount |-> Amount(mant,
                              DecimalsUsed(venue, direction, decimals) + off),
                  decimals |-> decimals, slippage |-> s, sdk |-> sdk,
                  baseUnits |-> 0, bound |-> NoBound,
                  instructions |-> <<>>, final |-> <<>>]
  /\ CacheOff
  /\ KeyOff
  /\ FindOff
  /\ BuildOff
  /\ TradeOff
  /\ TtlOff
  /\ RaceOff

NextConv ==
  \/ getBuyInstructions /\ UNCHANGED exceptConv
  \/ getSellInstructions /\ UNCHANGED exceptConv
  \/ BuilderAdds /\ UNCHANGED exceptConv

SpecConv == InitConv /\ [][NextConv]_vars

-----------------------------------------------------------------------------
(* Claims about the venue adapters *)

\* the number of compute-budget instructions of a sequence
BudgetCount(ixs) == Cardinality({i \in 1..Len(ixs) : ixs[i] = "computeBudget"})

\* C18 (as claimed): whatever the SDK of the venue built, the instructions an
\* adapter returns hold no compute-budget instruction, so the transaction
\* holds just the compute-budget entry buildTransaction added.
C18_AdaptersStripComputeBudget ==
  /\ conv.stage \in {"returned", "added"} => BudgetCount(conv.instructions) = 0
  /\ conv.stage = "added" => BudgetCount(conv.final) = 1

\* |n|
Abs(n) == IF n < 0 THEN -n ELSE n

\* C19: the base-unit amount an adapter computes from the amount x and the
\* decimal count d (9 on a buy, the decimals of the mint on a sell) is an
\* integer nearest to x * 10^d: it differs from it by at most half a base
\* unit, and converted back it is within one base unit of x.
C19_NearestBaseUnit ==
  (conv.stage \in {"returned", "added"}
     /\ (conv.direction = "sell" => conv.decimals # NoDecimals)) =>
    LET d == IF conv.direction = "buy" THEN 9 ELSE conv.decimals
        e == conv.amount.exp - d
    IN IF e >= 0
       THEN /\ 2 * Abs(conv.baseUnits * Pow10(e) - conv.amount.mant) <= Pow10(e)
            /\ Abs(conv.baseUnits * Pow10(e) - conv.amount.mant) <= Pow10(e)
       ELSE conv.baseUnits = conv.amount.mant * Pow10(-e)

\* C19 witness: a sell of 0.0000005 of a mint with 6 decimals, half a base
\* unit, has become 1 base unit
C19_Witness ==
  /\ conv.stage = "returned"
  /\ conv.direction = "sell"
  /\ conv.decimals = 6
  /\ conv.amount = Amount(5, 7)
  /\ conv.baseUnits = 1

\* the slippage bound in basis points (hundredths of a percent)
BoundInBps ==
  IF conv.bound.unit = "bps" THEN conv.bound.value.num
  ELSE conv.bound.value.num * (100 \div conv.bound.scale)

\* C20 (as claimed): the bound a Meteora adapter derives from a slippage that
\* is a number lies in 0..10000 bps or 0..100 percent; for a fraction of
\* [0, 1] it is the fraction scaled and rounded to an integer of bps, or to
\* two decimals of a percent, and 0 for the fraction 0.
C20_SlippageBoundClamped ==
  (conv.stage \in {"returned", "added"} /\ venue # RAYDIUM_CLMM /\ ~conv.slippage.nan) =>
    /\ conv.bound.unit \in {"bps", "percent"}
    /\ conv.bound.value.inf = 0 /\ ~conv.bound.value.nan
    /\ conv.bound.unit = "bps" => conv.bound.scale = 1
    /\ BoundInBps >= 0 /\ BoundInBps <= 10000
    /\ (conv.slippage.inf = 0 /\ conv.slippage.num >= 0 /\ conv.slippage.num <= 100000) =>
         2 * Abs(BoundInBps * 10 - conv.slippage.num) <= 10
    /\ conv.slippage = Num(0) => BoundInBps = 0

-----------------------------------------------------------------------------
(* getCacheTtlMs of the four clients, under every environment *)

\* the values an environment variable may hold
TtlEnvValues ==
  {Unset, NotNumeric, NumText(-1), NumText(0), NumText(1), NumText(3 * TickMs)}

\* a client reads its TTL
ReadTtl ==
  /\ ttlUsed = 0
  /\ ttlUsed' = getCacheTtlMs(venue)
  /\ UNCHANGED <<venue, env>>

InitTtl ==
  /\ venue \in ListingVenues \cup {DBC}
  /\ env \in [EnvNames -> TtlEnvValues]
  /\ ttlUsed = 0
  /\ now = StartNow
  /\ mem = NoMem
  /\ disk = NoDisk
  /\ call = Idle
  /\ last = NoCall
  /\ netEntry = NoNet
  /\ KeyOff
  /\ FindOff
  /\ BuildOff
  /\ TradeOff
  /\ ConvOff
  /\ RaceOff

NextTtl == ReadTtl /\ UNCHANGED exceptTtl

SpecTtl == InitTtl /\ [][NextTtl]_vars

\* C21 (as claimed): every client's TTL is the value of the one override
\* PAIRS_CACHE_TTL_MS when that is a positive number, and 5 minutes when it is
\* missing, not numeric, zero or negative.
C21_OneOverrideForAll ==
  ttlUsed # 0 =>
    LET override == env["PAIRS_CACHE_TTL_MS"]
    IN ttlUsed = IF override.kind = "num" /\ override.num > 0
                 THEN override.num ELSE 300000

-----------------------------------------------------------------------------
(* More claims about the listing cache *)

\* the key of the listing the modelled calls ask for
TheKey == CacheKey(venue, CHOOSE token \in CallTokens : TRUE)

\* C22: no failure of a disk operation fails a listing call: a call fails
\* only when its network fetch failed; a file is served only when it was read
\* and held an array; and a listing fetched from the network is returned and
\* held in memory whether or not the file was written.
C22_DiskFailuresSwallowed ==
  /\ last.status = "error" => last.failed
  /\ (last.status = "ok" /\ last.source = "disk") =>
       TheKey \in DOMAIN disk /\ disk[TheKey].isArray
  /\ (last.status = "ok" /\ last.source = "network") =>
       /\ TheKey \in DOMAIN mem
       /\ mem[TheKey].data.pools = last.pools

\* C22 witness: a fetched, non-empty listing was returned and is held in
\* memory although no file was written
C22_Witness ==
  /\ last.status = "ok"
  /\ last.source = "network"
  /\ last.pools # {}
  /\ TheKey \notin DOMAIN disk
  /\ TheKey \in DOMAIN mem
  /\ mem[TheKey].data.pools = last.pools

-----------------------------------------------------------------------------
(* More claims about pool resolution *)

\* C23 (as claimed): the pool a resolution returns is never one remembered
\* from an earlier resolution.
C23_NoResolvedPoolRemembered ==
  found.status = "ok" =>
    ~(found.trace[1].strategy = "baseMintToPool" /\ found.trace[1].result # NoAddress)

\* a strategy of the last resolution ended with a transport error
TransportErrorSeen ==
  \E i \in 1..Len(found.trace) : found.trace[i].result = Throws

\* C26 (as claimed): when a lookup made during a resolution fails with a
\* transport error, so does the resolution: it does not end with a pool, nor
\* with the pool-not-found error.
C26_TransportErrorSurfaced ==
  TransportErrorSeen => (found.status = "error" /\ found.error # "PoolNotFound")

\* the addresses of the records of the snapshot
SnapshotAddresses == {snapshot[i].address : i \in 1..Len(snapshot)}

\* C27 (as claimed): in the DLMM client, a pool returned by the snapshot
\* filter or by the pair map is the address of a record of the latest
\* snapshot.
C27_PairMapOfLatestSnapshot ==
  (venue = DLMM /\ found.status = "ok"
     /\ found.trace[Len(found.trace)].strategy \in {"filter", "pairCache"}) =>
    found.pool \in SnapshotAddresses

\* C24 (as claimed): a listing returned from the memory tier is not empty.
C24_EmptyNotServedFromMemory ==
  (last.status = "ok" /\ last.source = "memory") => last.pools # {}

\* C28: while a listing call waits for its fetch, and when the fetch fails,
\* the memory tier is left as it was when the call started; so is it when one
\* of the two requests of DAMM v2 was answered before the other failed.
C28_FailedFetchLeavesMemory ==
  [][(call'.active \/ (call.active /\ last'.status = "error")) => mem' = mem]_vars

\* C28 witness: a DAMM v2 call failed after one of its two requests was
\* answered, and memory still holds the non-empty listing of an earlier fetch
C28_Witness ==
  /\ venue = DAMM_V2
  /\ last.status = "error"
  /\ last.failed
  /\ last.answered = 1
  /\ TheKey \in DOMAIN mem
  /\ mem[TheKey].data.pools # {}

-----------------------------------------------------------------------------
(* Concurrent listing calls for one pair key: each call runs up to its        *)
(* `await`, and the code after the await runs without interruption            *)

\* most listing calls in flight together
MaxRacers == 2

\* most clock steps while the calls are in flight
MaxRaceTicks == 1

Racers == 1..MaxRacers

NotCalled ==
  [stage |-> "idle", now0 |-> 0, need |-> 0, got |-> NoData, parts |-> <<>>,
   result |-> NoData, wrote |-> 0]

\* writes made to the memory entry so far
Writes == Cardinality({i \in DOMAIN racers : racers[i].wrote > 0})

\* One more call starts while others are in flight: `now` is read, both tiers
\* miss, the requests are sent.
RaceStart(i) ==
  LET k == TheKey IN
  /\ racers[i].stage = "idle"
  /\ ~MemHit(venue, k, now)
  /\ \E readOk \in BOOLEAN : ~DiskHit(venue, k, now, readOk)
  /\ racers' = [racers EXCEPT ![i] = [NotCalled EXCEPT !.stage = "waiting",
                                                    !.now0 = now,
                                                    !.need = NumRequests(venue)]]
  /\ UNCHANGED <<venue, env, now, mem, disk>>

\* mutant of RaceRespond: the timestamp of the entry is only moved forward, so
\* a listing can be stored under the timestamp of another call
RaceRespondKeepsStamp(i, pools, w) ==
  LET r == racers[i]
      k == TheKey
      items == Merge(r.got, pools, now)
      stamp == IF k \in DOMAIN mem /\ mem[k].loadedAt > r.now0
               THEN mem[k].loadedAt ELSE r.now0
  IN
  /\ r.stage = "waiting"
  /\ IF r.need > 1
     THEN /\ racers' = [racers EXCEPT ![i] = [r EXCEPT !.need = @ - 1, !.got = items,
                                                      !.parts = Append(@, pools)]]
          /\ UNCHANGED <<mem, disk>>
     ELSE /\ mem' = Put(mem, k, FetchedEntry(items, stamp))
          /\ disk' = WriteFile(k, items, w, now)
          /\ racers' = [racers EXCEPT ![i] = [r EXCEPT !.stage = "done", !.need = 0,
                                                      !.got = items,
                                                      !.parts = Append(@, pools),
                                                      !.result = items,
                                                      !.wrote = Writes + 1]]
  /\ UNCHANGED <<venue, env, now>>

\* A response of call i arrives; with its last one the call stores
\* {data: items, loadedAt: now} (its own `now`), writes the file and returns
\* items.
RaceRespond(i, pools, w) ==
  LET r == racers[i]
      k == TheKey
      items == Merge(r.got, pools, now)
  IN
  /\ r.stage = "waiting"
  /\ IF r.need > 1
     THEN /\ racers' = [racers EXCEPT ![i] = [r EXCEPT !.need = @ - 1, !.got = items,
                                                      !.parts = Append(@, pools)]]
          /\ UNCHANGED <<mem, disk>>
     ELSE /\ mem' = Put(mem, k, FetchedEntry(items, r.now0))
          /\ disk' = WriteFile(k, items, w, now)
          /\ racers' = [racers EXCEPT ![i] = [r EXCEPT !.stage = "done", !.need = 0,
                                                      !.got = items,
                                                      !.parts = Append(@, pools),
                                                      !.result = items,
                                                      !.wrote = Writes + 1]]
  /\ UNCHANGED <<venue, env, now>>

\* A request of call i fails: the call throws and stores nothing.
RaceFail(i) ==
  /\ racers[i].stage = "waiting"
  /\ racers' = [racers EXCEPT ![i] = [@ EXCEPT !.stage = "failed", !.need = 0]]
  /\ UNCHANGED <<venue, env, now, mem, disk>>

\* Date.now() advances between two steps of the calls.
RaceTick ==
  /\ now < StartNow + MaxRaceTicks * TickMs
  /\ now' = now + TickMs
  /\ UNCHANGED <<venue, env, mem, disk, racers>>

InitRace ==
  /\ venue \in ListingVenues
  /\ env = [n \in EnvNames |-> Unset]
  /\ now = StartNow
  /\ mem = MemInit(venue)
  /\ disk = NoDisk
  /\ call = Idle
  /\ last = NoCall
  /\ netEntry = NoNet
  /\ racers = [i \in Racers |-> NotCalled]
  /\ KeyOff
  /\ FindOff
  /\ BuildOff
  /\ TradeOff
  /\ ConvOff
  /\ TtlOff

NextRace ==
  \/ \E i \in Racers : RaceStart(i) /\ UNCHANGED exceptRace
  \/ \E i \in Racers, pools \in SUBSET PoolIds, w \in WriteOutcomes :
       RaceRespond(i, pools, w) /\ UNCHANGED exceptRace
  \/ \E i \in Racers : RaceFail(i) /\ UNCHANGED exceptRace
  \/ RaceTick /\ UNCHANGED exceptRace

SpecRace == InitRace /\ [][NextRace]_vars

AllCompleted == \A i \in Racers : racers[i].stage \in {"done", "failed"}
LastWriter == CHOOSE i \in Racers : racers[i].wrote = Writes
Delivered(r) == UNION {r.parts[n] : n \in DOMAIN r.parts}

\* C25: when every concurrent call for the key has completed and one of them
\* stored a listing, the memory entry is the listing and the timestamp of the
\* call that wrote last; and every call that returned got all the pools its own
\* responses delivered.
C25_LastWriterWins ==
  /\ (AllCompleted /\ Writes > 0) =>
       /\ TheKey \in DOMAIN mem
       /\ mem[TheKey] = FetchedEntry(racers[LastWriter].result, racers[LastWriter].now0)
  /\ \A i \in Racers :
       racers[i].stage = "done" =>
         /\ Len(racers[i].parts) = NumRequests(venue)
         /\ racers[i].result.pools = Delivered(racers[i])

\* two calls overlapped, and the one that started first wrote last
C25_Witness ==
  /\ AllCompleted
  /\ \E i, j \in Racers :
       /\ racers[i].wrote = 1 /\ racers[j].wrote = 2
       /\ racers[j].now0 < racers[i].now0
       /\ racers[j].result # racers[i].result

-----------------------------------------------------------------------------
(* More claims about SolanaTrade.trade *)

HandedToAccelerated ==
  trade.status \in {"sending", "sent"} /\ trade.backend \in Accelerated

\* C29 (as claimed): the tip amount passed to the sendTransaction of an
\* accelerated sender is the amount of the relay tip instruction put in the
\* transaction, that is the tip after the minimum of the provider is applied.
C29_HandedTipIsFinalTip ==
  HandedToAccelerated =>
    /\ trade.relay.added
    /\ trade.handedTip = trade.relay.finalTip

\* C30: through trade (buy, sell) a finite slippage percentage reaches
\* buildTransaction clamped to 0..100 percent, so that the range check of
\* buildTransaction does not reject it; a slippage that is not finite fails
\* the call with 'Invalid slippage' before buildTransaction is entered, with
\* no transaction built and no sender called.
C30_SlippageClampedOrRejected ==
  trade.status # "idle" =>
    IF IsFinite(treq.slippage)
    THEN /\ build.status # "rejected"
         /\ trade.error # "Invalid slippage"
         /\ JsLeq(Num(0), req.slippage) /\ JsLeq(req.slippage, Num(100))
         /\ JsLess(treq.slippage, Num(0)) => req.slippage = Num(0)
         /\ JsLess(Num(100), treq.slippage) => req.slippage = Num(100)
         /\ (JsLeq(Num(0), treq.slippage) /\ JsLeq(treq.slippage, Num(100)))
              => req.slippage = treq.slippage
    ELSE /\ trade.status = "failed"
         /\ trade.error = "Invalid slippage"
         /\ tx = <<>>
         /\ build = NotBuilding
         /\ req = NoRequest
         /\ trade.backend = ""

\* a slippage of 150 percent went through buildTransaction as the fraction 1
\* and the transaction was handed to a sender
C30_Witness ==
  /\ treq.slippage = Num(150)
  /\ req.slippage = Num(100)
  /\ build.status = "built"
  /\ trade.status = "sent"

====
